---- MODULE Spec2Model ----
(***************************************************************************)
(* Window sampling policies of include/algorithms.hpp: mod_sampling,       *)
(* miniception, rotational_alt, rotational_orig, decycling and             *)
(* double_decycling, each with a batch sample(window) and a streaming      *)
(* sample(window, clear), over the sliding-window minimum tracker          *)
(* (enumerator) they are built on.                                         *)
(*                                                                         *)
(* enumerator.hpp and the Hasher are not part of the available sources;    *)
(* both are modelled from the specification document (sections 4.1, 4.2).  *)
(***************************************************************************)
EXTENDS Integers, Sequences, FiniteSets, TLC

(***************************************************************************)
(* Bounds of the model.                                                    *)
(***************************************************************************)
MaxW == 3
MaxK == 4
MaxLen == 5
MaxRootsLen == 4
MaxOtherK == 1
MaxSeed == 0
NumLetters == 3
MaxSpan == 3
MaxLabel == 1
MaxEnumHash == 1
HashMax == 7

(***************************************************************************)
(* Program constants.                                                      *)
(***************************************************************************)
MinW == 2
sigma == 4

\* The 4-letter alphabet as char codes: 'A', 'C', 'G', 'T'.
Alphabet == {65, 67, 71, 84}

\* The letters the caller's sequence is drawn from: the first NumLetters.
Letters == {c \in Alphabet : Cardinality({d \in Alphabet : d < c}) < NumLetters}

\* uint64_t(-1), the value of `uint64_t p = -1`; written -1 because the
\* model's integers are narrower than 64 bits.  It is >= every valid offset.
NoPos == -1

\* What a call hands back: an offset, or no value at all because a failed
\* assertion ended the process, or because no call has been made yet.
\* cerr tells whether the call wrote an error message to std::cerr.
Returned(p) == [kind |-> "offset", pos |-> p, cerr |-> FALSE]
Aborted == [kind |-> "abort", pos |-> NoPos, cerr |-> TRUE]
NoRet == [kind |-> "none", pos |-> NoPos, cerr |-> FALSE]

\* The call read an enumerator that holds no candidate, with no assertion
\* to stop it: what it returns is undefined.
Undefined == [kind |-> "undefined", pos |-> NoPos, cerr |-> FALSE]

Min2(a, b) == IF a < b THEN a ELSE b

SubSeqAt(s, i, len) == SubSeq(s, i + 1, i + len)

(***************************************************************************)
(* Hasher::hash(substring, w, len, seed): a deterministic key that depends *)
(* only on the substring bytes, the length and the seed.  Keys range over  *)
(* 0..HashMax, HashMax standing for hash_type(-1), the largest key.        *)
(***************************************************************************)
Rank(c) == CASE c = 65 -> 0 [] c = 67 -> 1 [] c = 71 -> 2 [] OTHER -> 3

RECURSIVE Encode(_)
Encode(s) == IF s = <<>> THEN 0 ELSE Rank(Head(s)) + 4 * Encode(Tail(s))

Hash(sub, seed) == ((2 * seed + 3) * Encode(sub) + seed) % (HashMax + 1)

\* Keys are pairs <<primary, hash>>, compared as std::pair is.
KeyLess(x, y) == x[1] < y[1] \/ (x[1] = y[1] /\ x[2] < y[2])

\* Hasher applied through the plain (non-composite) hash_type.
PlainKey(sub, seed) == <<0, Hash(sub, seed)>>

\* typename Hasher::hash_type min_hash(-1)
PlainMax == <<0, HashMax>>

(***************************************************************************)
(* enumerator: the sliding-window minimum tracker of span m.  Its state is *)
(* the retained candidates m_q, front first, each an (offset, hash) pair   *)
(* with the offset relative to the oldest live position, and the number    *)
(* m_live of live positions, at most m.                                    *)
(***************************************************************************)
NewEnum == [m_q |-> <<>>, m_live |-> 0]

\* Eviction of the strictly greater keys only.
RECURSIVE PopBackGreater(_, _)
PopBackGreater(q, key) ==
    IF q # <<>> /\ KeyLess(key, q[Len(q)].hash)
    THEN PopBackGreater(SubSeq(q, 1, Len(q) - 1), key)
    ELSE q

\* Evict from the back every retained candidate whose key is >= the new key.
RECURSIVE PopBack(_, _)
PopBack(q, key) ==
    IF q # <<>> /\ ~KeyLess(q[Len(q)].hash, key)
    THEN PopBack(SubSeq(q, 1, Len(q) - 1), key)
    ELSE q

\* The current offset advances by one: once m positions are live the oldest
\* leaves the trailing span, every offset drops by one, and a front candidate
\* that was at the oldest position is evicted.
Advance(q, m, live) ==
    IF live < m THEN q
    ELSE LET kept == IF q # <<>> /\ q[1].offset = 0 THEN Tail(q) ELSE q
         IN  [i \in 1..Len(kept) |-> [offset |-> kept[i].offset - 1, hash |-> kept[i].hash]]

\* feed(item, reset)
enum_eat(e, m, key, clear) ==
    LET live == IF clear THEN 0 ELSE e.m_live
        q0   == IF clear THEN <<>> ELSE e.m_q
        q1   == PopBack(Advance(q0, m, live), key)
    IN  [m_q |-> Append(q1, [offset |-> Min2(live, m - 1), hash |-> key]),
         m_live |-> Min2(live + 1, m)]

\* skip()
enum_skip(e, m) ==
    [m_q |-> Advance(e.m_q, m, e.m_live), m_live |-> Min2(e.m_live + 1, m)]

\* query() is defined only while a candidate is retained.
enum_live(e) == e.m_q # <<>>

\* query(): the front candidate's offset relative to the oldest live position.
enum_next(e) == e.m_q[1].offset

\* eat(window, clear) as the policies use it: keys[i + 1] is the key of the
\* substring at window + i, for i in 0..m-1.  A clearing call feeds all m
\* substrings, the first with reset; a continuing call feeds only the newly
\* exposed last one.
RECURSIVE enum_eat_from(_, _, _, _)
enum_eat_from(e, m, keys, i) ==
    IF i > m THEN e
    ELSE enum_eat_from(enum_eat(e, m, keys[i], i = 1), m, keys, i + 1)

enum_eat_window(e, m, keys, clear) ==
    IF clear THEN enum_eat_from(e, m, keys, 1)
    ELSE enum_eat(e, m, keys[m], FALSE)

(***************************************************************************)
(* Composite hashers.  G is the process-wide state the hashers read:       *)
(* char_remap, the roots table, and how the build's floating point decides *)
(* a phase that lies exactly on a boundary of the tested interval.         *)
(***************************************************************************)

\* sum of kmer[j] for j = 0, w, 2w, ... < k
RECURSIVE StrideSum(_, _, _, _, _)
StrideSum(kmer, vals, j, w, k) ==
    IF j >= k THEN 0
    ELSE vals[kmer[j + 1]] + StrideSum(kmer, vals, j + w, w, k)

CharValue == [c \in Alphabet |-> c]

\* The key without the negation: the k-mer with the smallest sum compares
\* smallest.
rotational_alt_hasher_positive(kmer, w, k, seed) ==
    <<StrideSum(kmer, CharValue, 0, w, k), Hash(kmer, seed)>>

rotational_alt_hasher(kmer, w, k, seed) ==
    <<0 - StrideSum(kmer, CharValue, 0, w, k), Hash(kmer, seed)>>

\* rotational_alt_hash<Hasher> min_hash{-1, -1}
rotational_alt_max == <<-1, HashMax>>

\* The loop over the residue classes j = 1 .. w-1, left on the first class
\* whose sum exceeds sum0 + sigma - 1.
\* The loop without the tolerance sigma - 1.
RECURSIVE in_uhs_no_tolerance(_, _, _, _, _, _)
in_uhs_no_tolerance(kmer, remap, sum0, j, w, k) ==
    IF j >= w THEN TRUE
    ELSE IF ~(StrideSum(kmer, remap, j, w, k) <= sum0) THEN FALSE
    ELSE in_uhs_no_tolerance(kmer, remap, sum0, j + 1, w, k)

RECURSIVE in_uhs(_, _, _, _, _, _)
in_uhs(kmer, remap, sum0, j, w, k) ==
    IF j >= w THEN TRUE
    ELSE IF ~(StrideSum(kmer, remap, j, w, k) <= sum0 + sigma - 1) THEN FALSE
    ELSE in_uhs(kmer, remap, sum0, j + 1, w, k)

rotational_orig_hasher(kmer, w, k, seed, G) ==
    LET sum0 == StrideSum(kmer, G.char_remap, 0, w, k)
    IN  <<IF in_uhs(kmer, G.char_remap, sum0, 1, w, k) THEN 0 ELSE 1,
          Hash(kmer, seed)>>

\* uhs_hash<Hasher> min_hash{-1, -1}: the first component is a uint8_t.
uhs_max == <<255, HashMax>>

\* The twelfth roots of unity, e^(2 pi i n / 12), as <<a, b, c, d>> standing
\* for (a + b sqrt 3)/2 + i (c + d sqrt 3)/2.  Every root exp(2 pi i j / k)
\* with k dividing 12 is one of them.
Root12(n) ==
    CASE n = 0 -> <<2, 0, 0, 0>>   [] n = 1 -> <<0, 1, 1, 0>>
      [] n = 2 -> <<1, 0, 0, 1>>   [] n = 3 -> <<0, 0, 2, 0>>
      [] n = 4 -> <<-1, 0, 0, 1>>  [] n = 5 -> <<0, -1, 1, 0>>
      [] n = 6 -> <<-2, 0, 0, 0>>  [] n = 7 -> <<0, -1, -1, 0>>
      [] n = 8 -> <<-1, 0, 0, -1>> [] n = 9 -> <<0, 0, -2, 0>>
      [] n = 10 -> <<1, 0, 0, -1>> [] OTHER -> <<0, 1, -1, 0>>

\* The table index of exp(2 pi i j / k).
RootIndex(j, k) == (j * (12 \div k)) % 12

\* The entries a constructor for length k appends to the roots table.
RootsFor(k) == [j \in 1..k |-> RootIndex(j - 1, k)]

\* x = sum of roots[i] * kmer[i] for i in [0, k)
RECURSIVE ComplexSum(_, _, _, _)
ComplexSum(kmer, roots, i, k) ==
    IF i >= k THEN <<0, 0, 0, 0>>
    ELSE LET r == Root12(roots[i + 1])
             c == kmer[i + 1]
             x == ComplexSum(kmer, roots, i + 1, k)
         IN  <<x[1] + c * r[1], x[2] + c * r[2], x[3] + c * r[3], x[4] + c * r[4]>>

\* The sign of p + q sqrt 3.
Sgn3(p, q) ==
    CASE p = 0 /\ q = 0 -> 0
      [] p >= 0 /\ q >= 0 -> 1
      [] p <= 0 /\ q <= 0 -> -1
      [] p > 0 /\ q < 0 -> IF p * p > 3 * q * q THEN 1 ELSE -1
      [] OTHER -> IF 3 * q * q > p * p THEN 1 ELSE -1

SgnRe(x) == Sgn3(x[1], x[2])
SgnIm(x) == Sgn3(x[3], x[4])

\* The sign of the imaginary part of x * e^(2 pi i n / 12).
SgnImRot(x, n) ==
    LET r == Root12(n)
    IN  Sgn3(x[1] * r[3] + 3 * x[2] * r[4] + x[3] * r[1] + 3 * x[4] * r[2],
             x[1] * r[4] + x[2] * r[3] + x[3] * r[2] + x[4] * r[1])

\* pi - 2 pi / k < arg(x).  For k = 1 the only root read is roots[0] =
\* exp(0) = 1, the sum is the positive real kmer[0] and its phase is 0.
\* Otherwise the phase is strictly inside (pi - 2 pi/k, pi) when x is
\* strictly above the real axis and strictly counter-clockwise of the ray at
\* pi - 2 pi/k; a sum that is exactly 0, on that ray or on the negative real
\* axis is decided by rounding.
is_decycling_arg_pos(kmer, k, G) ==
    LET x  == ComplexSum(kmer, G.roots, 0, k)
        s1 == SgnIm(x)
        s2 == SgnImRot(x, (6 + 12 \div k) % 12)
    IN  IF k = 1 THEN TRUE
        ELSE IF s1 > 0 /\ s2 > 0 THEN TRUE
        ELSE IF \/ (s1 = 0 /\ SgnRe(x) <= 0)
                \/ (s2 = 0 /\ (s1 > 0 \/ (s1 = 0 /\ SgnRe(x) > 0)))
             THEN G.fpPos
        ELSE FALSE

\* -2 pi / k < arg(x) and arg(x) <= 0.
is_decycling_arg_neg(kmer, k, G) ==
    LET x  == ComplexSum(kmer, G.roots, 0, k)
        s1 == SgnIm(x)
        s3 == SgnImRot(x, (12 \div k) % 12)
    IN  IF k = 1 THEN TRUE
        ELSE IF s1 < 0 /\ s3 > 0 THEN TRUE
        ELSE IF \/ (s1 = 0 /\ SgnRe(x) >= 0)
                \/ (s3 = 0 /\ s1 <= 0)
             THEN G.fpNeg
        ELSE FALSE

decycling_hasher(kmer, w, k, seed, G) ==
    <<IF is_decycling_arg_pos(kmer, k, G) THEN 0 ELSE 1, Hash(kmer, seed)>>

\* The key with one label for every k-mer: the hash alone decides.
double_decycling_hasher_unlabelled(kmer, w, k, seed, G) ==
    <<0, Hash(kmer, seed)>>

double_decycling_hasher(kmer, w, k, seed, G) ==
    IF is_decycling_arg_pos(kmer, k, G) THEN <<0, Hash(kmer, seed)>>
    ELSE IF is_decycling_arg_neg(kmer, k, G) THEN <<1, Hash(kmer, seed)>>
    ELSE <<2, Hash(kmer, seed)>>

(***************************************************************************)
(* The policies.  c is the policy object's configuration                   *)
(* [name, w, k, t, seed] together with ndebug, whether the build compiles  *)
(* its assertions out.                                                     *)
(***************************************************************************)

\* The test with w - 1 in place of w - 2.
is_not_forward_lax(k, w, t) == (w + k - t - 1) % w < w - 1

\* is_not_forward(k, w, t), for w >= 2 and t <= k
is_not_forward(k, w, t) == (w + k - t - 1) % w < w - 2

\* for (i = 0; i != n; ++i) if (hash < min_hash) { min_hash = hash; p = i; }
RECURSIVE batch_scan(_, _, _, _, _)
batch_scan(keys, i, n, p, min_hash) ==
    IF i = n THEN [p |-> p, min_hash |-> min_hash]
    ELSE IF KeyLess(keys[i + 1], min_hash)
         THEN batch_scan(keys, i + 1, n, i, keys[i + 1])
         ELSE batch_scan(keys, i + 1, n, p, min_hash)

\* assert(cond); return v;
AssertThen(c, cond, v) == IF cond \/ c.ndebug THEN Returned(v) ELSE Aborted

\* fastmod_u32(p, M, w): both operands are taken as 32-bit values, so
\* uint64_t(-1) is read as 2^32 - 1.
fastmod_u32(p, w) ==
    IF p = NoPos THEN (((65536 % w) * (65536 % w)) + w - 1) % w ELSE p % w

\* The keys of the n length-len substrings at window + 0 .. window + n - 1.
PlainKeys(window, n, len, seed) ==
    [i \in 1..n |-> PlainKey(SubSeqAt(window, i - 1, len), seed)]

mod_sampling_sample(c, window) ==
    LET num_tmers == (c.w + c.k - 1) - c.t + 1
        r == batch_scan(PlainKeys(window, num_tmers, c.t, c.seed), 0, num_tmers,
                        NoPos, PlainMax)
    IN  AssertThen(c, r.p # NoPos /\ r.p < num_tmers, fastmod_u32(r.p, c.w))

\* The streaming calls return the policy object's enumerators with the
\* result.
mod_sampling_sample_stream(c, tmers, kmers, window, clear) ==
    LET m == c.w + c.k - c.t
        e == enum_eat_window(tmers, m, PlainKeys(window, m, c.t, c.seed), clear)
    IN  [ret |-> Returned(fastmod_u32(enum_next(e), c.w)),
         tmers |-> e, kmers |-> kmers]

\* One round of miniception's loop over the kmers: the t-mer enumerator of
\* span w0 + 1 eats the kmer, and the kmer is charged when the minimal t-mer
\* is its first or its last.
miniception_tmers(c, tmers, kmer, clear) ==
    LET w0 == c.k - c.t
    IN  enum_eat_window(tmers, w0 + 1, PlainKeys(kmer, w0 + 1, c.t, c.seed), clear)

miniception_charged(c, tmers) ==
    LET w0 == c.k - c.t
        tmer_p == enum_next(tmers)
    IN  tmer_p = 0 \/ tmer_p = w0

RECURSIVE miniception_batch_loop(_, _, _, _, _, _)
miniception_batch_loop(c, window, i, enum_tmers, p, min_hash) ==
    IF i = c.w THEN p
    ELSE LET kmer == SubSeqAt(window, i, c.k)
             e    == miniception_tmers(c, enum_tmers, kmer, i = 0)
             hash == PlainKey(kmer, c.seed)
         IN  IF miniception_charged(c, e) /\ KeyLess(hash, min_hash)
             THEN miniception_batch_loop(c, window, i + 1, e, i, hash)
             ELSE miniception_batch_loop(c, window, i + 1, e, p, min_hash)

miniception_sample(c, window) ==
    LET p == miniception_batch_loop(c, window, 0, NewEnum, NoPos, PlainMax)
    IN  AssertThen(c, p # NoPos /\ p < c.w, p)

\* The loop with the charging test dropped: every kmer is fed to the outer
\* enumerator.
RECURSIVE miniception_stream_loop_eats_all(_, _, _, _, _)
miniception_stream_loop_eats_all(c, window, i, tmers, kmers) ==
    IF i = c.w THEN [tmers |-> tmers, kmers |-> kmers]
    ELSE LET kmer == SubSeqAt(window, i, c.k)
             e    == miniception_tmers(c, tmers, kmer, i = 0)
         IN  miniception_stream_loop_eats_all(c, window, i + 1, e,
                 enum_eat(kmers, c.w, PlainKey(kmer, c.seed), FALSE))

RECURSIVE miniception_stream_loop(_, _, _, _, _)
miniception_stream_loop(c, window, i, tmers, kmers) ==
    IF i = c.w THEN [tmers |-> tmers, kmers |-> kmers]
    ELSE LET kmer == SubSeqAt(window, i, c.k)
             e    == miniception_tmers(c, tmers, kmer, i = 0)
         IN  miniception_stream_loop(c, window, i + 1, e,
                 IF miniception_charged(c, e)
                 THEN enum_eat(kmers, c.w, PlainKey(kmer, c.seed), FALSE)
                 ELSE enum_skip(kmers, c.w))

miniception_sample_stream(c, tmers, kmers, window, clear) ==
    LET s == miniception_stream_loop(c, window, IF clear THEN 0 ELSE c.w - 1,
                                     tmers, kmers)
        ret == IF enum_live(s.kmers)
               THEN LET p == enum_next(s.kmers)
                    IN  AssertThen(c, p # NoPos /\ p < c.w, p)
               ELSE IF c.ndebug THEN Undefined ELSE Aborted
    IN  [ret |-> ret, tmers |-> s.tmers, kmers |-> s.kmers]

\* The composite hasher of the four single-enumerator policies.
PolicyHasher(c, kmer, G) ==
    CASE c.name = "rotational_alt" -> rotational_alt_hasher(kmer, c.w, c.k, c.seed)
      [] c.name = "rotational_orig" -> rotational_orig_hasher(kmer, c.w, c.k, c.seed, G)
      [] c.name = "decycling" -> decycling_hasher(kmer, c.w, c.k, c.seed, G)
      [] OTHER -> double_decycling_hasher(kmer, c.w, c.k, c.seed, G)

KmerKeys(c, window, G) ==
    [i \in 1..c.w |-> PolicyHasher(c, SubSeqAt(window, i - 1, c.k), G)]

rotational_alt_sample(c, window, G) ==
    LET r == batch_scan(KmerKeys(c, window, G), 0, c.w, NoPos, rotational_alt_max)
    IN  AssertThen(c, r.p # NoPos /\ r.p < c.w, r.p)

\* Without a kmer of the restricted set the call writes to std::cerr and
\* runs into assert(false).
rotational_orig_sample(c, window, G) ==
    LET r == batch_scan(KmerKeys(c, window, G), 0, c.w, NoPos, uhs_max)
    IN  IF r.min_hash[1] # 0
        THEN IF c.ndebug THEN [Returned(r.p) EXCEPT !.cerr = TRUE] ELSE Aborted
        ELSE AssertThen(c, r.p # NoPos /\ r.p < c.w, r.p)

decycling_sample(c, window, G) ==
    LET r == batch_scan(KmerKeys(c, window, G), 0, c.w, NoPos, uhs_max)
    IN  AssertThen(c, r.p # NoPos /\ r.p < c.w, r.p)

double_decycling_sample(c, window, G) ==
    LET r == batch_scan(KmerKeys(c, window, G), 0, c.w, NoPos, uhs_max)
    IN  AssertThen(c, r.p # NoPos /\ r.p < c.w, r.p)

\* m_enum_kmers.eat(window, clear); return m_enum_kmers.next();
kmers_sample_stream(c, tmers, kmers, window, clear, G) ==
    LET e == enum_eat_window(kmers, c.w, KmerKeys(c, window, G), clear)
    IN  [ret |-> Returned(enum_next(e)), tmers |-> tmers, kmers |-> e]

\* sample(window)
sample(c, window, G) ==
    CASE c.name = "mod_sampling" -> mod_sampling_sample(c, window)
      [] c.name = "miniception" -> miniception_sample(c, window)
      [] c.name = "rotational_alt" -> rotational_alt_sample(c, window, G)
      [] c.name = "rotational_orig" -> rotational_orig_sample(c, window, G)
      [] c.name = "decycling" -> decycling_sample(c, window, G)
      [] OTHER -> double_decycling_sample(c, window, G)

\* sample(window, clear)
sample_stream(c, tmers, kmers, window, clear, G) ==
    CASE c.name = "mod_sampling" ->
            mod_sampling_sample_stream(c, tmers, kmers, window, clear)
      [] c.name = "miniception" ->
            miniception_sample_stream(c, tmers, kmers, window, clear)
      [] OTHER -> kmers_sample_stream(c, tmers, kmers, window, clear, G)

\* The policy object's enumerators after a batch call: the batch methods
\* read the configuration only, and miniception's uses a local enumerator.
sample_members(c, tmers, kmers, window) == [tmers |-> tmers, kmers |-> kmers]

(***************************************************************************)
(* The state: one process, its global tables, one policy object under      *)
(* scan, and the window the caller currently points at.                    *)
(***************************************************************************)
VARIABLES
    ndebug,        \* the build compiles assertions out
    fpPos, fpNeg,  \* the build's rounding of a phase exactly on a boundary
    char_remap,    \* uint8_t char_remap[256], at the alphabet's letters
    roots,         \* vector<complex> roots, as indices into Root12
    pc,            \* "start", "ready" (object constructed) or "aborted"
    cfg,           \* the object's name, m_w, m_k, m_t, m_seed
    m_enum_tmers, m_enum_kmers,
    win,           \* the caller's current window
    scanning,      \* a streaming scan has been started with clear = true
    last,          \* the last operation: "none", "construct", "stream", "batch"
    ret,           \* what the last operation returned
    f_tmers, f_kmers, f_ret,
                   \* the same scan on an object constructed afresh when the
                   \* scan was started
    e_span, e_enum,
                   \* an enumerator of span e_span driven directly
    e_fed          \* what its last calls fed: a key, or Skipped

enumvars == <<e_span, e_enum, e_fed>>

vars == <<ndebug, fpPos, fpNeg, char_remap, roots, pc, cfg, m_enum_tmers,
          m_enum_kmers, win, scanning, last, ret, f_tmers, f_kmers, f_ret,
          e_span, e_enum, e_fed>>

UsesT(name) == name \in {"mod_sampling", "miniception"}
UsesRoots(name) == name \in {"decycling", "double_decycling"}

G == [char_remap |-> char_remap, roots |-> roots, fpPos |-> fpPos, fpNeg |-> fpNeg]

C == [name |-> cfg.name, w |-> cfg.w, k |-> cfg.k, t |-> cfg.t, seed |-> cfg.seed,
      ndebug |-> ndebug]

Windows(len) == [1..len -> Letters]

Slide(window, c) == Append(Tail(window), c)

\* What the caller gets from a call that returned r: r itself, or any value,
\* out of range or in range, when r is undefined.
Outcomes(r) ==
    IF r.kind = "undefined" THEN {Returned(v) : v \in {NoPos, 0, cfg.w - 1}} ELSE {r}

Skipped == <<MaxLabel + 1, 0>>

EnumKeys == (0..MaxLabel) \X (0..MaxEnumHash)

Init ==
    /\ ndebug \in BOOLEAN
    /\ fpPos = FALSE
    /\ fpNeg = FALSE
    /\ char_remap = [c \in Alphabet |-> 0]
    /\ roots = <<>>
    /\ pc = "start"
    /\ cfg = [name |-> "none", w |-> MinW, k |-> 1, t |-> 1, seed |-> 0]
    /\ m_enum_tmers = NewEnum
    /\ m_enum_kmers = NewEnum
    /\ win = <<>>
    /\ scanning = FALSE
    /\ last = "none"
    /\ ret = NoRet
    /\ f_tmers = NewEnum
    /\ f_kmers = NewEnum
    /\ f_ret = NoRet
    /\ e_span = 1
    /\ e_enum = NewEnum
    /\ e_fed = <<>>

\* roots.push_back(std::exp(...)) for i in [0, k): the k roots are appended
\* to the global table.  The first computation of roots is where the build's
\* rounding shows.
PushRoots(k, rp, rn) ==
    /\ roots' = roots \o RootsFor(k)
    /\ fpPos' = IF roots = <<>> THEN rp ELSE fpPos
    /\ fpNeg' = IF roots = <<>> THEN rn ELSE fpNeg

\* Another decycling or double_decycling object, for length k, is constructed
\* first.
ConstructOther(k, rp, rn) ==
    /\ pc = "start"
    /\ roots = <<>>
    /\ 12 % k = 0
    /\ PushRoots(k, rp, rn)
    /\ UNCHANGED <<ndebug, char_remap, pc, cfg, m_enum_tmers, m_enum_kmers, win,
                   scanning, last, ret, f_tmers, f_kmers, f_ret, enumvars>>

\* Policy(w, k, t, seed), after which the caller points at a first window.
Construct(name, w, k, t, seed, window, rp, rn) ==
    /\ pc = "start"
    /\ cfg' = [name |-> name, w |-> w, k |-> k, t |-> t, seed |-> seed]
    /\ m_enum_tmers' = NewEnum
    /\ m_enum_kmers' = NewEnum
    /\ last' = "construct"
    /\ IF name = "rotational_orig" /\ k % w # 0 /\ ~ndebug
       THEN \* assert(m_k % m_w == 0)
            /\ pc' = "aborted"
            /\ ret' = Aborted
            /\ win' = <<>>
            /\ UNCHANGED <<char_remap, roots, fpPos, fpNeg>>
       ELSE /\ pc' = "ready"
            /\ ret' = NoRet
            /\ win' = window
            /\ char_remap' = IF name = "rotational_orig"
                             THEN [c \in Alphabet |-> CASE c = 65 -> 0 [] c = 67 -> 1
                                                        [] c = 84 -> 2 [] OTHER -> 3]
                             ELSE char_remap
            /\ IF UsesRoots(name) THEN PushRoots(k, rp, rn)
               ELSE UNCHANGED <<roots, fpPos, fpNeg>>
    /\ UNCHANGED <<ndebug, scanning, f_tmers, f_kmers, f_ret, enumvars>>

\* The effect of a streaming call that returned r on the object, next to the
\* same call f on the object constructed afresh.
Streamed(window, r, f) ==
    /\ win' = window
    /\ m_enum_tmers' = r.tmers
    /\ m_enum_kmers' = r.kmers
    /\ ret' \in Outcomes(r.ret)
    /\ pc' = IF r.ret.kind = "abort" THEN "aborted" ELSE "ready"
    /\ f_tmers' = f.tmers
    /\ f_kmers' = f.kmers
    /\ f_ret' \in Outcomes(f.ret)
    /\ last' = "stream"
    /\ UNCHANGED <<ndebug, fpPos, fpNeg, char_remap, roots, cfg, enumvars>>

\* sample(window, clear) with clear = true, on the current window or after
\* the caller moved it by one symbol.
StreamFirst(move) ==
    /\ pc = "ready"
    /\ \E window \in {IF move = 0 THEN win ELSE Slide(win, move)} :
       \E r \in {sample_stream(C, m_enum_tmers, m_enum_kmers, window, TRUE, G)} :
       \E f \in {sample_stream(C, NewEnum, NewEnum, window, TRUE, G)} :
          Streamed(window, r, f)
    /\ scanning' = TRUE

\* The window slides by one symbol and sample(window, false) is called.
StreamNext(sym) ==
    /\ pc = "ready"
    /\ scanning
    /\ \E window \in {Slide(win, sym)} :
       \E r \in {sample_stream(C, m_enum_tmers, m_enum_kmers, window, FALSE, G)} :
       \E f \in {sample_stream(C, f_tmers, f_kmers, window, FALSE, G)} :
          Streamed(window, r, f)
    /\ UNCHANGED scanning

\* sample(window) on the current window, before or within a streaming scan.
Batch ==
    /\ pc = "ready"
    /\ last # "batch"
    /\ \E r \in {sample(C, win, G)} :
       \E s \in {sample_members(C, m_enum_tmers, m_enum_kmers, win)} :
          /\ ret' = r
          /\ pc' = IF r.kind = "abort" THEN "aborted" ELSE "ready"
          /\ m_enum_tmers' = s.tmers
          /\ m_enum_kmers' = s.kmers
    /\ last' = "batch"
    /\ UNCHANGED <<ndebug, fpPos, fpNeg, char_remap, roots, cfg, win, scanning,
                   f_tmers, f_kmers, f_ret, enumvars>>

\* enumerator(m, ...): an enumerator of span m on its own.
EnumConstruct(m) ==
    /\ pc = "start"
    /\ pc' = "enum"
    /\ e_span' = m
    /\ e_enum' = NewEnum
    /\ e_fed' = <<>>
    /\ UNCHANGED <<ndebug, fpPos, fpNeg, char_remap, roots, cfg, m_enum_tmers,
                   m_enum_kmers, win, scanning, last, ret, f_tmers, f_kmers, f_ret>>

\* The calls of the trailing span after one more call that fed item.
Trail(fed, m, item) ==
    LET all == Append(IF item.clear THEN <<>> ELSE fed, item.key)
    IN  IF Len(all) > m THEN Tail(all) ELSE all

\* feed(item, reset)
EnumFeed(key, clear) ==
    /\ pc = "enum"
    /\ e_enum' = enum_eat(e_enum, e_span, key, clear)
    /\ e_fed' = Trail(e_fed, e_span, [key |-> key, clear |-> clear])
    /\ UNCHANGED <<ndebug, fpPos, fpNeg, char_remap, roots, pc, cfg, m_enum_tmers,
                   m_enum_kmers, win, scanning, last, ret, f_tmers, f_kmers, f_ret,
                   e_span>>

\* skip()
EnumSkip ==
    /\ pc = "enum"
    /\ e_enum' = enum_skip(e_enum, e_span)
    /\ e_fed' = Trail(e_fed, e_span, [key |-> Skipped, clear |-> FALSE])
    /\ UNCHANGED <<ndebug, fpPos, fpNeg, char_remap, roots, pc, cfg, m_enum_tmers,
                   m_enum_kmers, win, scanning, last, ret, f_tmers, f_kmers, f_ret,
                   e_span>>

\* The configurations within the bounds.
Configs(names) ==
    {c \in [name : names, w : MinW..MaxW, k : 1..MaxK, t : 1..MaxK, seed : 0..MaxSeed] :
        /\ c.w + c.k - 1 <= MaxLen
        /\ UsesRoots(c.name) => c.w + c.k - 1 <= MaxRootsLen /\ 12 % c.k = 0
        /\ IF UsesT(c.name) THEN c.t <= c.k ELSE c.t = c.k}

\* The roundings that can show when an object of this name builds the table.
RoundingsPos(name) == IF UsesRoots(name) /\ roots = <<>> THEN BOOLEAN ELSE {FALSE}
RoundingsNeg(name) ==
    IF name = "double_decycling" /\ roots = <<>> THEN BOOLEAN ELSE {FALSE}

Constructs(names) ==
    \E c \in Configs(names) :
    \E window \in Windows(c.w + c.k - 1) :
    \E rp \in RoundingsPos(c.name), rn \in RoundingsNeg(c.name) :
       Construct(c.name, c.w, c.k, c.t, c.seed, window, rp, rn)

Scans ==
    \/ \E move \in {0} \cup Letters : StreamFirst(move)
    \/ \E sym \in Letters : StreamNext(sym)
    \/ Batch

\* Another decycling object may have been constructed before this one.
Others == \E k \in 1..MaxOtherK, rp \in BOOLEAN, rn \in BOOLEAN : ConstructOther(k, rp, rn)

NextModSampling == Constructs({"mod_sampling"}) \/ Scans
NextMiniception == Constructs({"miniception"}) \/ Scans
NextRotationalAlt == Constructs({"rotational_alt"}) \/ Scans
NextRotationalOrig == Constructs({"rotational_orig"}) \/ Scans
NextDecycling == Others \/ Constructs({"decycling", "double_decycling"}) \/ Scans

\* The three policies whose key is a label paired with a hash.
NextLabelled ==
    \/ Others
    \/ Constructs({"rotational_orig", "decycling", "double_decycling"})
    \/ Scans

NextEnumerator ==
    \/ \E m \in 1..MaxSpan : EnumConstruct(m)
    \/ \E key \in EnumKeys, clear \in BOOLEAN : EnumFeed(key, clear)
    \/ EnumSkip

SpecEnumerator == Init /\ [][NextEnumerator]_vars

SpecModSampling == Init /\ [][NextModSampling]_vars
SpecMiniception == Init /\ [][NextMiniception]_vars
SpecRotationalAlt == Init /\ [][NextRotationalAlt]_vars
SpecRotationalOrig == Init /\ [][NextRotationalOrig]_vars
SpecDecycling == Init /\ [][NextDecycling]_vars
SpecLabelled == Init /\ [][NextLabelled]_vars

-----------------------------------------------------------------------------
\* Reference definitions the properties are stated with.

\* The offset a naive scan of keys selects among the eligible offsets: the
\* smallest key, the smallest offset among equal keys.
NaiveLeftmost(keys, eligible) ==
    CHOOSE i \in eligible :
        \A j \in eligible :
            /\ ~KeyLess(keys[j], keys[i])
            /\ j < i => KeyLess(keys[i], keys[j])

NaiveRescan(fed) ==
    NaiveLeftmost(fed, {i \in 1..Len(fed) : fed[i] # Skipped}) - 1

FedLive(fed) == \E i \in 1..Len(fed) : fed[i] # Skipped

StreamReturned == last = "stream" /\ ret.kind = "offset"

\* Every k-mer of the window has a single minimal t-mer, so that whether it
\* is charged does not rest on a tie.
SingleMinTmers(c, window) ==
    \A i \in 0..(c.w - 1) :
        LET n    == c.k - c.t + 1
            keys == PlainKeys(SubSeqAt(window, i, c.k), n, c.t, c.seed)
        IN  \E a \in 1..n : \A b \in (1..n) \ {a} : KeyLess(keys[a], keys[b])

\* No k-mer of the window hashes to the largest hash value.
BelowMax(c, window) ==
    \A i \in 0..(c.w - 1) : PlainKey(SubSeqAt(window, i, c.k), c.seed) # PlainMax

-----------------------------------------------------------------------------
\* C1: for rotational_alt, rotational_orig, decycling and double_decycling,
\* the offset the streaming sample(window, clear) returns for a window equals
\* the offset the batch sample(window) returns for the same window.
C1_StreamEqualsBatch ==
    (/\ StreamReturned
     /\ cfg.name \in {"rotational_alt", "rotational_orig", "decycling",
                      "double_decycling"}
     /\ sample(C, win, G).kind = "offset")
        => ret.pos = sample(C, win, G).pos

\* C2: for mod_sampling, the offset the streaming sample returns for a window
\* equals the offset the batch sample returns for it, both folding the
\* position of the leftmost minimal t-mer modulo w.
C2_ModSamplingStreamEqualsBatch ==
    (/\ StreamReturned
     /\ cfg.name = "mod_sampling"
     /\ mod_sampling_sample(C, win).kind = "offset")
        => ret.pos = mod_sampling_sample(C, win).pos

\* C3: for miniception, whenever the batch scan selects a charged k-mer of
\* the window, the streaming sample returns the same offset for that window.
C3_MiniceptionStreamEqualsBatch ==
    (/\ StreamReturned
     /\ cfg.name = "miniception"
     /\ enum_live(m_enum_kmers)
     /\ miniception_sample(C, win).kind = "offset"
     /\ miniception_sample(C, win).pos # NoPos)
        => ret.pos = miniception_sample(C, win).pos

\* C4: every call returns an offset p with 0 <= p < w (stated here for the
\* batch sample(window) on the windows whose k-mers each have a single
\* minimal t-mer and a hash below the largest hash value).
C4_OffsetInRange ==
    (last = "batch" /\ SingleMinTmers(C, win) /\ BelowMax(C, win))
        => ret.kind = "offset" /\ ret.pos \in 0..(cfg.w - 1)

\* C5: in batch and in streaming mode, when several k-mers of the window share
\* the minimal key, the one with the smallest offset is selected.
C5_LeftmostOnTies ==
    (/\ last \in {"batch", "stream"}
     /\ ret.kind = "offset"
     /\ cfg.name = "rotational_alt")
        => ret.pos = NaiveLeftmost(KmerKeys(C, win, G), 1..cfg.w) - 1

\* C6: after any sequence of feed and skip calls that leaves a fed item in
\* the trailing m positions, query() is the offset a naive re-scan of the
\* trailing m positions finds: the minimum key, leftmost on ties.
C6_QueryEqualsNaiveRescan ==
    (pc = "enum" /\ FedLive(e_fed))
        => enum_live(e_enum) /\ enum_next(e_enum) = NaiveRescan(e_fed)

\* C8: constructing rotational_orig with k not divisible by w fails with a
\* reported error: no object comes to exist.
C8_BadDivisibilityFails ==
    (cfg.name = "rotational_orig" /\ cfg.k % cfg.w # 0) => pc = "aborted"

C10_BatchIsPure ==
    (last = "batch" /\ UsesRoots(cfg.name))
        => ret = sample(C, win, [G EXCEPT !.roots = RootsFor(cfg.k)])

\* C11: the offsets a decycling or double_decycling object returns do not
\* depend on the objects constructed before it: a streaming scan returns, for
\* each window, the offset a scan reading exactly the k phases 2 pi i / k of
\* the object's own k returns.
C11_InstancesIndependent ==
    (StreamReturned /\ UsesRoots(cfg.name))
        => ret.pos = enum_next(enum_eat_window(NewEnum, cfg.w,
                         KmerKeys(C, win, [G EXCEPT !.roots = RootsFor(cfg.k)]),
                         TRUE))

\* The offsets of the charged k-mers of a window: those whose minimal t-mer,
\* as a t-mer enumerator fed with the k-mer alone reports it, is the first or
\* the last of the k-mer.
ChargedOffsets(c, window) ==
    {i \in 0..(c.w - 1) :
        miniception_charged(c, miniception_tmers(c, NewEnum,
                                                 SubSeqAt(window, i, c.k), TRUE))}

\* C12: for miniception in streaming mode, when exactly one k-mer of the
\* window is charged, the returned offset is that k-mer's offset, whatever
\* the hashes of the uncharged k-mers.
C12_SingleChargedSelected ==
    (/\ last = "stream"
     /\ cfg.name = "miniception"
     /\ Cardinality(ChargedOffsets(C, win)) = 1)
        => \A i \in ChargedOffsets(C, win) : ret = Returned(i)

\* C12 witness: a streaming call returned the offset of the only charged
\* k-mer of a window in which an uncharged k-mer has a strictly smaller hash
\* and no k-mer has two minimal t-mers.
C12_Witness ==
    /\ last = "stream"
    /\ cfg.name = "miniception"
    /\ SingleMinTmers(C, win)
    /\ \E i \in ChargedOffsets(C, win) :
          /\ ChargedOffsets(C, win) = {i}
          /\ ret = Returned(i)
          /\ \E j \in (0..(cfg.w - 1)) \ {i} :
                KeyLess(PlainKey(SubSeqAt(win, j, cfg.k), cfg.seed),
                        PlainKey(SubSeqAt(win, i, cfg.k), cfg.seed))

\* C13: a query on an enumerator without a live candidate is detected as an
\* error: a streaming call of miniception that leaves its outer enumerator
\* without a candidate ends in the error, it does not return an offset
\* (stated here for the windows whose k-mers each have a single minimal
\* t-mer).
C13_EmptyQueryDetected ==
    (/\ last = "stream"
     /\ cfg.name = "miniception"
     /\ SingleMinTmers(C, win)
     /\ ~enum_live(m_enum_kmers))
        => ret.kind = "abort"

\* The ranks A = 0, C = 1, T = 2, G = 3 and the restricted set they define:
\* every residue class j in [1, w) has sum_j <= sum_0 + 3.
RankACTG == [c \in Alphabet |-> CASE c = 65 -> 0 [] c = 67 -> 1 [] c = 84 -> 2
                                  [] OTHER -> 3]

InRestrictedSet(kmer, w, k) ==
    \A j \in 1..(w - 1) :
        StrideSum(kmer, RankACTG, j, w, k) <= StrideSum(kmer, RankACTG, 0, w, k) + 3

RestrictedOffsets(c, window) ==
    {i \in 0..(c.w - 1) : InRestrictedSet(SubSeqAt(window, i, c.k), c.w, c.k)}

\* C14: for rotational_orig with k divisible by w, every window holds a k-mer
\* of the restricted set, and the batch sample never takes the 'Not a single
\* kmer is in UHS' path.
C14_RestrictedSetNonEmpty ==
    (cfg.name = "rotational_orig" /\ cfg.k % cfg.w = 0 /\ pc # "start")
        => /\ RestrictedOffsets(C, win) # {}
           /\ last = "batch" => ret.kind = "offset" /\ ~ret.cerr

\* C14 witness: the batch sample returned on a window of a well-formed
\* rotational_orig in which some k-mer is outside the restricted set and
\* another one inside it.
C14_Witness ==
    /\ cfg.name = "rotational_orig"
    /\ cfg.k % cfg.w = 0
    /\ last = "batch"
    /\ ret.kind = "offset"
    /\ RestrictedOffsets(C, win) # {}
    /\ RestrictedOffsets(C, win) # 0..(cfg.w - 1)

\* The structural part of the enumerator's invariant: offsets strictly
\* increasing and within the trailing span, keys non-decreasing, no retained
\* candidate with a more recent one whose key is equal or smaller.
EnumOrdered(e, m) ==
    /\ \A a \in 1..Len(e.m_q) : e.m_q[a].offset \in 0..(e.m_live - 1)
    /\ e.m_live <= m
    /\ \A a, b \in 1..Len(e.m_q) :
          a < b => /\ e.m_q[a].offset < e.m_q[b].offset
                   /\ ~KeyLess(e.m_q[b].hash, e.m_q[a].hash)

EnumUndominated(e) ==
    \A a, b \in 1..Len(e.m_q) : a < b => KeyLess(e.m_q[a].hash, e.m_q[b].hash)

\* C15: after every feed or skip the retained candidates are ordered, within
\* the trailing m positions and undominated, and the front candidate is the
\* minimum of the trailing span, leftmost on ties.
C15_EnumInvariant ==
    pc = "enum"
        => /\ EnumOrdered(e_enum, e_span)
           /\ EnumUndominated(e_enum)
           /\ FedLive(e_fed) <=> enum_live(e_enum)
           /\ FedLive(e_fed) => e_enum.m_q[1].offset = NaiveRescan(e_fed)

\* The offsets, within the trailing span, of the fed items with minimal key.
MinimalFed(fed) ==
    {i - 1 : i \in {a \in 1..Len(fed) :
                      /\ fed[a] # Skipped
                      /\ \A b \in 1..Len(fed) :
                            fed[b] # Skipped => ~KeyLess(fed[b], fed[a])}}

Decreases(c, first, second) ==
    /\ mod_sampling_sample(c, first).kind = "offset"
    /\ mod_sampling_sample(c, second).kind = "offset"
    /\ 1 + mod_sampling_sample(c, second).pos < mod_sampling_sample(c, first).pos

\* Some sequence of w + k symbols has two consecutive windows with a decrease.
SomeDecrease(c) ==
    \E seq \in Windows(c.w + c.k) :
        Decreases(c, SubSeq(seq, 1, c.w + c.k - 1), SubSeq(seq, 2, c.w + c.k))

\* C17: is_not_forward(k, w, t) characterises the forwardness of
\* mod_sampling: when it is false the absolute selected position never
\* decreases when the window slides by one symbol, and when it is true some
\* two consecutive windows show a decrease.
C17_Forwardness ==
    [][/\ (/\ cfg.name = "mod_sampling"
           /\ cfg' = cfg
           /\ last' = "stream"
           /\ win' = Slide(win, win'[Len(win')])
           /\ Decreases(C, win, win'))
          => is_not_forward(cfg.k, cfg.w, cfg.t)
       /\ (/\ cfg.name = "mod_sampling"
           /\ last = "construct"
           /\ is_not_forward(cfg.k, cfg.w, cfg.t))
          => SomeDecrease(C)]_vars

\* C17 witness: a streaming scan of a mod_sampling object for which
\* is_not_forward holds stands on a window whose selected position is lower
\* than that of a window one symbol before it.
C17_Witness ==
    /\ cfg.name = "mod_sampling"
    /\ last = "stream"
    /\ is_not_forward(cfg.k, cfg.w, cfg.t)
    /\ \E c \in Letters :
          Decreases(C, <<c>> \o SubSeq(win, 1, Len(win) - 1), win)


\* The sum of the window's symbols at positions i, i + w, i + 2w, ... of
\* the k-mer at offset i, the last one at stride index m.
RECURSIVE SymbolSum(_, _, _, _)
SymbolSum(window, i, w, m) ==
    IF m < 0 THEN 0 ELSE window[i + m * w + 1] + SymbolSum(window, i, w, m - 1)

\* The offsets whose k-mer has the largest sum of symbols at k-mer
\* positions 0, w, 2w, ... below k.
MaxSumOffsets(c, window) ==
    LET m == (c.k - 1) \div c.w
    IN  {i \in 0..(c.w - 1) :
            \A j \in 0..(c.w - 1) :
                SymbolSum(window, j, c.w, m) <= SymbolSum(window, i, c.w, m)}

\* Among those, the offsets whose k-mer has the smallest Hasher key.
MaxSumMinHashOffsets(c, window) ==
    {i \in MaxSumOffsets(c, window) :
        \A j \in MaxSumOffsets(c, window) :
            Hash(SubSeqAt(window, i, c.k), c.seed)
                <= Hash(SubSeqAt(window, j, c.k), c.seed)}

Label(c, kmer, g) ==
    LET pos == is_decycling_arg_pos(kmer, c.k, g)
        neg == is_decycling_arg_neg(kmer, c.k, g)
    IN  CASE c.name = "rotational_orig" ->
                IF in_uhs(kmer, g.char_remap,
                          StrideSum(kmer, g.char_remap, 0, c.w, c.k), 1, c.w, c.k)
                THEN 0 ELSE 1
          [] c.name = "decycling" -> IF pos THEN 0 ELSE 1
          [] OTHER -> IF pos /\ neg THEN 0
                      ELSE IF pos THEN 0
                      ELSE IF neg THEN 1
                      ELSE 2

LabelAt(c, window, i, g) == Label(c, SubSeqAt(window, i, c.k), g)

\* The offsets whose k-mer has the smallest label present in the window.
MinLabelOffsets(c, window, g) ==
    {i \in 0..(c.w - 1) :
        \A j \in 0..(c.w - 1) : LabelAt(c, window, i, g) <= LabelAt(c, window, j, g)}

\* C19: for rotational_orig, decycling and double_decycling the k-mer that
\* sample(window) or sample(window, clear) selects has the smallest label
\* present among the w k-mers of the window, and the smallest Hasher key
\* among the k-mers with that label.
C19_LabelBeforeHash ==
    (/\ cfg.name \in {"rotational_orig", "decycling", "double_decycling"}
     /\ last \in {"batch", "stream"})
        => /\ ret.kind = "offset"
           /\ ret.pos \in MinLabelOffsets(C, win, G)
           /\ \A j \in MinLabelOffsets(C, win, G) :
                Hash(SubSeqAt(win, ret.pos, cfg.k), cfg.seed)
                    <= Hash(SubSeqAt(win, j, cfg.k), cfg.seed)

\* C19 witness: a double_decycling call selected the k-mer with the
\* smallest label of the window although the other k-mer, whose label is
\* larger, has the smaller Hasher key.
C19_Witness ==
    /\ cfg.name = "double_decycling"
    /\ last \in {"batch", "stream"}
    /\ ret.kind = "offset"
    /\ ret.pos \in MinLabelOffsets(C, win, G)
    /\ \E j \in (0..(cfg.w - 1)) \ MinLabelOffsets(C, win, G) :
            Hash(SubSeqAt(win, j, cfg.k), cfg.seed)
                < Hash(SubSeqAt(win, ret.pos, cfg.k), cfg.seed)

=============================================================================
